---- MODULE Spec2Model ----
(***************************************************************************)
(* A model of django/db/backends/utils.py: the cursor wrappers             *)
(* (CursorWrapper, CursorDebugWrapper) acting on a connection's dirty flag *)
(* and query log, and the typecast / truncate_name / format_number helpers.*)
(*                                                                         *)
(* Python strings are sequences of one-character strings (log lines are    *)
(* sequences of tokens), None is the record [tag |-> "None"], and a float  *)
(* is an exact binary fraction counted in sixteenths.                      *)
(***************************************************************************)
EXTENDS Integers, Sequences, FiniteSets, TLC

VARIABLES
    pc,         \* where the caller of the cursor stands: idle, bound, finally, done
    dirty,      \* the connection's dirty flag (db.set_dirty())
    queries,    \* the connection's query log (db.queries)
    logged,     \* the records emitted through logger.debug
    frame,      \* the call in progress on the wrapper
    observed,   \* what the caller saw of the last completed call
    calls,      \* history: the arguments of each debug execute / executemany
    args,       \* the helper function applied and its arguments
    ret,        \* what the helper returned or raised
    USE_TZ,     \* settings.USE_TZ
    ctxPrec     \* decimal.getcontext().prec, the global decimal context

vars == <<pc, dirty, queries, logged, frame, observed, calls, args, ret, USE_TZ, ctxPrec>>
cursorVars == <<pc, dirty, queries, logged, frame, observed, calls>>
helperVars == <<args, ret, USE_TZ, ctxPrec>>

\* ------------------------------------------------------------------ bounds
MaxQueries == 2

\* ----------------------------------------------------------- Python values
None == [tag |-> "None"]

Digits == <<"0", "1", "2", "3", "4", "5", "6", "7", "8", "9">>

DigitChars == {Digits[i] : i \in 1..10}

RECURSIVE Pow10(_)
Pow10(n) == IF n <= 0 THEN 1 ELSE 10 * Pow10(n - 1)

\* str(n) for an integer n >= 0
RECURSIVE IntToStr(_)
IntToStr(n) ==
    IF n < 10 THEN <<Digits[n + 1]>>
    ELSE IntToStr(n \div 10) \o <<Digits[(n % 10) + 1]>>

\* n >= 0 written with exactly w digits, zero padded
RECURSIVE ZeroPad(_, _)
ZeroPad(n, w) ==
    IF w <= 0 THEN <<>> ELSE ZeroPad(n \div 10, w - 1) \o <<Digits[(n % 10) + 1]>>

\* "%.<places>f" % x for the float x = sixteenths / 16 >= 0: the exact binary
\* value rounded to the nearest multiple of 10^-places, ties to even.
PercentF(places, sixteenths) ==
    LET scaled == sixteenths * Pow10(places)
        q == scaled \div 16
        r == scaled % 16
        n == IF 2 * r > 16 \/ (2 * r = 16 /\ q % 2 = 1) THEN q + 1 ELSE q
        whole == IntToStr(n \div Pow10(places))
    IN  IF places = 0 THEN whole
        ELSE whole \o <<".">> \o ZeroPad(n % Pow10(places), places)

\* ------------------------------------------------------ the driver's cursor
SET_DIRTY_ATTRS == {"execute", "executemany", "callproc"}

WRAP_ERROR_ATTRS ==
    {"callproc", "close", "execute", "executemany",
     "fetchone", "fetchmany", "fetchall", "nextset"}

\* cursor attributes outside both sets, forwarded as they are
OtherAttrs == {"scroll"}

Attrs == WRAP_ERROR_ATTRS \cup OtherAttrs

\* a call of a driver cursor method returns, or raises the driver's own error
DriverOutcomes ==
    {[kind |-> "return", exc |-> "-"], [kind |-> "raise", exc |-> "DriverError"]}

\* the statement and the parameters the caller passes
Sqls == {<<"UPDATE t SET c = ", "%s">>}

ParamsSet == {None, [tag |-> "tuple", items |-> <<"7">>]}

ParamLists ==
    {[tag |-> "list", items |-> <<>>],
     [tag |-> "list", items |-> <<"7", "8">>],
     [tag |-> "iterator", items |-> <<"7">>]}

\* time(): the clock readings, in sixteenths of a second
Times == {1, 4}

\* str(params)
ParamText(p) ==
    IF p.tag = "None" THEN <<"None">>
    ELSE IF p.tag = "iterator" THEN <<"<iterator>">>
    ELSE <<"(">> \o p.items \o <<")">>

\* ------------------------------------------------------------ the connection
\* db.wrap_database_errors: a driver exception leaves the scope as the
\* framework's DatabaseError
wrap_database_errors(out) ==
    IF out.kind = "raise" THEN [kind |-> "raise", exc |-> "DatabaseError"] ELSE out

\* db.ops.last_executed_query(cursor, sql, params): the statement with its
\* parameters bound
last_executed_query(sql, params) ==
    <<"QUERY = ">> \o sql \o <<" - PARAMS = ">> \o ParamText(params)

NoFrame ==
    [wrapper |-> "-", attr |-> "-", sql |-> <<>>, params |-> None,
     pending |-> [kind |-> "-", exc |-> "-"], driver |-> "-",
     dirtyAtInvoke |-> FALSE]

NoObserved ==
    [wrapper |-> "-", attr |-> "-", kind |-> "-", exc |-> "-",
     driver |-> "-", dirtyAtInvoke |-> FALSE]

Wrappers == {"CursorWrapper", "CursorDebugWrapper"}

CanStart == pc \in {"idle", "done"}

\* ----------------------------------------------------------- CursorWrapper
\* a __getattr__ that forgets db.set_dirty()
getattr_dirty_forgotten(attr, d) == d

\* __getattr__, first half: SET_DIRTY_ATTRS mark the connection dirty
getattr_dirty(attr, d) == IF attr \in SET_DIRTY_ATTRS THEN TRUE ELSE d

\* a __getattr__ that returns every attribute as it is
getattr_result_unwrapped(attr, out) == out

\* __getattr__, second half: what a call of the returned attribute gives the
\* caller when the driver's method ends with out
getattr_result(attr, out) ==
    IF attr \in WRAP_ERROR_ATTRS THEN wrap_database_errors(out) ELSE out

\* wrapper.<attr>: Python calls __getattr__ only for a name the class does not
\* define, so the debug wrapper's execute and executemany never come here
CursorWrapper_getattr(w, attr) ==
    /\ CanStart
    /\ w = "CursorDebugWrapper" => attr \notin {"execute", "executemany"}
    /\ dirty' = getattr_dirty(attr, dirty)
    /\ frame' = [NoFrame EXCEPT !.wrapper = w, !.attr = attr]
    /\ observed' = NoObserved
    /\ pc' = "bound"
    /\ UNCHANGED <<queries, logged, calls, helperVars>>

\* wrapper.<attr>(...): the caller calls what __getattr__ returned
CallForwarded ==
    /\ pc = "bound"
    /\ \E out \in DriverOutcomes :
          LET res == getattr_result(frame.attr, out)
          IN  observed' = [wrapper |-> frame.wrapper, attr |-> frame.attr,
                           kind |-> res.kind, exc |-> res.exc,
                           driver |-> out.kind, dirtyAtInvoke |-> dirty]
    /\ frame' = NoFrame
    /\ pc' = "done"
    /\ UNCHANGED <<dirty, queries, logged, calls, helperVars>>

\* for row in wrapper: __iter__ hands out the driver cursor's own iterator
CursorWrapper_iter(w) ==
    /\ CanStart
    /\ \E out \in DriverOutcomes :
          observed' = [wrapper |-> w, attr |-> "__iter__",
                       kind |-> out.kind, exc |-> out.exc,
                       driver |-> out.kind, dirtyAtInvoke |-> dirty]
    /\ frame' = NoFrame
    /\ pc' = "done"
    /\ UNCHANGED <<dirty, queries, logged, calls, helperVars>>

\* ------------------------------------------------------ CursorDebugWrapper
\* self.db.set_dirty() at the head of execute and executemany
debug_dirty(d) == TRUE

\* with self.db.wrap_database_errors: return self.cursor.execute(...)
debug_result(out) == wrap_database_errors(out)

\* an execute that logs the statement as passed, not as rendered
execute_entry_raw_sql(sql, params, duration) ==
    [sql |-> sql, time |-> PercentF(3, duration)]

\* the entry execute appends to db.queries
execute_entry(sql, params, duration) ==
    [sql |-> last_executed_query(sql, params), time |-> PercentF(3, duration)]

\* the record execute hands to logger.debug; sql was rebound to the rendered
\* statement before
execute_log(sql, params, duration) ==
    LET rendered == last_executed_query(sql, params)
    IN  [msg |-> <<"(">> \o PercentF(3, duration) \o <<") ">> \o rendered
                  \o <<"; args=">> \o ParamText(params),
         duration |-> duration, sql |-> rendered, params |-> params]

\* an executemany that counts the parameters whatever their kind
executemany_times_counted(param_list) == IntToStr(Len(param_list.items))

\* try: times = len(param_list) / except TypeError: times = '?'
executemany_times(param_list) ==
    IF param_list.tag = "iterator" THEN <<"?">> ELSE IntToStr(Len(param_list.items))

\* the entry executemany appends to db.queries
executemany_entry(sql, param_list, duration) ==
    [sql |-> executemany_times(param_list) \o <<" times: ">> \o sql,
     time |-> PercentF(3, duration)]

\* the record executemany hands to logger.debug
executemany_log(sql, param_list, duration) ==
    [msg |-> <<"(">> \o PercentF(3, duration) \o <<") ">> \o sql
              \o <<"; args=">> \o ParamText(param_list),
     duration |-> duration, sql |-> sql, params |-> param_list]

\* an execute that logs on the successful path only
execute_cleanup_on_success(log, sql, params, duration, pending) ==
    IF pending.kind = "return"
    THEN Append(log, execute_entry(sql, params, duration))
    ELSE log

\* the finally clause of execute: the new query log
execute_cleanup(log, sql, params, duration, pending) ==
    Append(log, execute_entry(sql, params, duration))

\* an executemany that replaces the log by its entry
executemany_cleanup_reset(log, sql, param_list, duration, pending) ==
    <<executemany_entry(sql, param_list, duration)>>

\* the finally clause of executemany: the new query log
executemany_cleanup(log, sql, param_list, duration, pending) ==
    Append(log, executemany_entry(sql, param_list, duration))

\* execute / executemany up to the end of the with block: the connection is
\* marked dirty and the driver's method runs inside the error-wrapping scope
DebugEnter(attr, sql, params) ==
    /\ CanStart
    /\ Len(calls) < MaxQueries
    /\ dirty' = debug_dirty(dirty)
    /\ \E out \in DriverOutcomes :
          frame' = [wrapper |-> "CursorDebugWrapper", attr |-> attr, sql |-> sql,
                    params |-> params,
                    pending |-> debug_result(out), driver |-> out.kind,
                    dirtyAtInvoke |-> debug_dirty(dirty)]
    /\ calls' = Append(calls, [attr |-> attr, sql |-> sql, params |-> params])
    /\ observed' = NoObserved
    /\ pc' = "finally"
    /\ UNCHANGED <<queries, logged, helperVars>>

CursorDebugWrapper_execute == \E sql \in Sqls, params \in ParamsSet :
    DebugEnter("execute", sql, params)

CursorDebugWrapper_executemany == \E sql \in Sqls, param_list \in ParamLists :
    DebugEnter("executemany", sql, param_list)

\* the finally clause, and the result or error reaching the caller after it.
\* start = time() was read before the driver's call and stop = time() is read
\* here; the two readings act only through their difference.
DebugFinally ==
    /\ pc = "finally"
    /\ \E start \in Times, stop \in Times :
          LET duration == stop - start
          IN  /\ stop >= start
              /\ IF frame.attr = "execute"
                 THEN /\ queries' = execute_cleanup(queries, frame.sql, frame.params,
                                                    duration, frame.pending)
                      /\ logged' = Append(logged,
                                      execute_log(frame.sql, frame.params, duration))
                 ELSE /\ queries' = executemany_cleanup(queries, frame.sql,
                                          frame.params, duration, frame.pending)
                      /\ logged' = Append(logged,
                                      executemany_log(frame.sql, frame.params, duration))
    /\ observed' = [wrapper |-> frame.wrapper, attr |-> frame.attr,
                    kind |-> frame.pending.kind, exc |-> frame.pending.exc,
                    driver |-> frame.driver, dirtyAtInvoke |-> frame.dirtyAtInvoke]
    /\ frame' = NoFrame
    /\ pc' = "done"
    /\ UNCHANGED <<dirty, calls, helperVars>>

\* the connection's owner ends the transaction between two calls
set_clean ==
    /\ CanStart
    /\ dirty
    /\ dirty' = FALSE
    /\ observed' = NoObserved
    /\ pc' = "idle"
    /\ UNCHANGED <<queries, logged, frame, calls, helperVars>>

\* a fresh connection: clean, nothing logged, no call in progress
CursorInit ==
    /\ pc = "idle"
    /\ dirty = FALSE
    /\ queries = <<>>
    /\ logged = <<>>
    /\ frame = NoFrame
    /\ observed = NoObserved
    /\ calls = <<>>

NoArgs == [fn |-> "-"]

\* no helper applied yet; the decimal module's default context has prec 28
HelperInit ==
    /\ args = NoArgs
    /\ ret = None
    /\ ctxPrec = 28

Init ==
    /\ CursorInit
    /\ HelperInit
    /\ USE_TZ = FALSE

Next ==
    \/ \E w \in Wrappers, attr \in Attrs : CursorWrapper_getattr(w, attr)
    \/ CallForwarded
    \/ \E w \in Wrappers : CursorWrapper_iter(w)
    \/ CursorDebugWrapper_execute
    \/ CursorDebugWrapper_executemany
    \/ DebugFinally
    \/ set_clean

Spec == Init /\ [][Next]_vars

\* ------------------------------------------------------- Python strings
Str(chars) == [tag |-> "str", chars |-> chars]

Raise(exc) == [tag |-> "raise", exc |-> exc]

\* bool(s) for s None or a string: the test of "if s" and "if not s"
Truthy(s) == s.tag # "None" /\ s.chars # <<>>

Contains(t, c) == \E i \in 1..Len(t) : t[i] = c

\* the index of the first c in t, 0 when there is none
IndexOf(t, c) ==
    IF Contains(t, c) THEN CHOOSE i \in 1..Len(t) : t[i] = c /\ \A j \in 1..(i - 1) : t[j] # c
    ELSE 0

\* t.split(c)
RECURSIVE Split(_, _)
Split(t, c) ==
    LET i == IndexOf(t, c)
    IN  IF i = 0 THEN <<t>>
        ELSE <<SubSeq(t, 1, i - 1)>> \o Split(SubSeq(t, i + 1, Len(t)), c)

\* t.split(c, 1)
Split1(t, c) ==
    LET i == IndexOf(t, c)
    IN  IF i = 0 THEN <<t>> ELSE <<SubSeq(t, 1, i - 1), SubSeq(t, i + 1, Len(t))>>

\* t.split(): the runs of non-blank characters
SplitBlank(t) == SelectSeq(Split(t, " "), LAMBDA part : part # <<>>)

\* t[:k]
SliceTo(t, k) ==
    IF k >= 0 THEN SubSeq(t, 1, IF k < Len(t) THEN k ELSE Len(t))
    ELSE SubSeq(t, 1, Len(t) + k)

IsDigits(t) == t # <<>> /\ \A i \in 1..Len(t) : t[i] \in DigitChars

\* int(t) accepts a sign and digits
IntOk(t) ==
    \/ IsDigits(t)
    \/ Len(t) >= 2 /\ t[1] \in {"+", "-"} /\ IsDigits(Tail(t))

RECURSIVE DigitsValue(_)
DigitsValue(t) ==
    IF t = <<>> THEN 0
    ELSE 10 * DigitsValue(SubSeq(t, 1, Len(t) - 1))
         + (CHOOSE d \in 0..9 : Digits[d + 1] = t[Len(t)])

IntValue(t) ==
    IF t[1] = "-" THEN 0 - DigitsValue(Tail(t))
    ELSE IF t[1] = "+" THEN DigitsValue(Tail(t))
    ELSE DigitsValue(t)

\* ------------------------------------------------------------- datetime
IsLeap(y) == y % 4 = 0 /\ (y % 100 # 0 \/ y % 400 = 0)

DaysInMonth(y, m) ==
    IF m = 2 THEN (IF IsLeap(y) THEN 29 ELSE 28)
    ELSE IF m \in {4, 6, 9, 11} THEN 30 ELSE 31

\* datetime.date(y, m, d) raises ValueError outside the calendar
DateOk(y, m, d) ==
    /\ 1 <= y /\ y <= 9999
    /\ 1 <= m /\ m <= 12
    /\ 1 <= d /\ d <= DaysInMonth(y, m)

\* datetime.time(h, mi, sec, us) raises ValueError outside the clock
TimeOk(h, mi, sec, us) ==
    /\ 0 <= h /\ h <= 23
    /\ 0 <= mi /\ mi <= 59
    /\ 0 <= sec /\ sec <= 59
    /\ 0 <= us /\ us <= 999999

\* ------------------------------------------------------------- typecasts
\* datetime.date(*map(int, s.split('-'))) if s else None
typecast_date(s) ==
    IF ~Truthy(s) THEN None
    ELSE LET parts == Split(s.chars, "-")
         IN  IF \E i \in 1..Len(parts) : ~IntOk(parts[i]) THEN Raise("ValueError")
             ELSE IF Len(parts) # 3 THEN Raise("TypeError")
             ELSE LET y == IntValue(parts[1])
                      m == IntValue(parts[2])
                      d == IntValue(parts[3])
                  IN  IF DateOk(y, m, d)
                      THEN [tag |-> "date", v |-> <<y, m, d>>, tz |-> "naive"]
                      ELSE Raise("ValueError")

\* int(float('.' + microseconds) * 1000000), for digits whose fraction and
\* whose product are exact in binary floating point
FloatMicroseconds(microseconds) ==
    IF Len(microseconds) <= 6
    THEN DigitsValue(microseconds) * Pow10(6 - Len(microseconds))
    ELSE DigitsValue(microseconds) \div Pow10(Len(microseconds) - 6)

typecast_time(s) ==
    IF ~Truthy(s) THEN None
    ELSE LET parts == Split(s.chars, ":")
         IN  IF Len(parts) # 3 THEN Raise("ValueError")
             ELSE LET secparts == Split(parts[3], ".")
                      dotted == Contains(parts[3], ".")
                  IN  IF dotted /\ Len(secparts) # 2 THEN Raise("ValueError")
                      ELSE LET seconds == secparts[1]
                               microseconds == IF dotted THEN secparts[2] ELSE <<"0">>
                           IN  IF \/ ~IntOk(parts[1]) \/ ~IntOk(parts[2])
                                  \/ ~IntOk(seconds) \/ ~IsDigits(microseconds)
                               THEN Raise("ValueError")
                               ELSE LET h == IntValue(parts[1])
                                        mi == IntValue(parts[2])
                                        sec == IntValue(seconds)
                                        us == FloatMicroseconds(microseconds)
                                    IN  IF TimeOk(h, mi, sec, us)
                                        THEN [tag |-> "time", v |-> <<h, mi, sec, us>>,
                                              tz |-> "naive"]
                                        ELSE Raise("ValueError")

\* an extraction of the offset that knows the '-' sign only
split_tz_minus_only(t) ==
    IF Contains(t, "-") THEN <<Split1(t, "-")[1], <<"-">> \o Split1(t, "-")[2]>>
    ELSE <<t, <<>>>>

\* the time part and the timezone offset cut off it: <<t, tz>>
split_tz(t) ==
    IF Contains(t, "-") THEN <<Split1(t, "-")[1], <<"-">> \o Split1(t, "-")[2]>>
    ELSE IF Contains(t, "+") THEN <<Split1(t, "+")[1], <<"+">> \o Split1(t, "+")[2]>>
    ELSE <<t, <<>>>>

typecast_timestamp(s, use_tz) ==
    IF ~Truthy(s) THEN None
    ELSE IF ~Contains(s.chars, " ") THEN typecast_date(s)
    ELSE LET dt == SplitBlank(s.chars)
         IN  IF Len(dt) # 2 THEN Raise("ValueError")
             ELSE LET d == dt[1]
                      t == split_tz(dt[2])[1]
                      dates == Split(d, "-")
                      times == Split(t, ":")
                  IN  IF Len(times) < 3 THEN Raise("IndexError")
                      ELSE LET dotted == Contains(times[3], ".")
                               secparts == Split(times[3], ".")
                           IN  IF dotted /\ Len(secparts) # 2 THEN Raise("ValueError")
                               ELSE LET seconds == secparts[1]
                                        microseconds ==
                                            IF dotted THEN secparts[2] ELSE <<"0">>
                                        tzinfo == IF use_tz THEN "utc" ELSE "naive"
                                        us6 == SliceTo(microseconds
                                                 \o <<"0", "0", "0", "0", "0", "0">>, 6)
                                    IN  IF ~IntOk(dates[1]) THEN Raise("ValueError")
                                        ELSE IF Len(dates) < 2 THEN Raise("IndexError")
                                        ELSE IF ~IntOk(dates[2]) THEN Raise("ValueError")
                                        ELSE IF Len(dates) < 3 THEN Raise("IndexError")
                                        ELSE IF \/ ~IntOk(dates[3]) \/ ~IntOk(times[1])
                                                \/ ~IntOk(times[2]) \/ ~IntOk(seconds)
                                                \/ ~IntOk(us6)
                                        THEN Raise("ValueError")
                                        ELSE LET y == IntValue(dates[1])
                                                 mo == IntValue(dates[2])
                                                 dd == IntValue(dates[3])
                                                 h == IntValue(times[1])
                                                 mi == IntValue(times[2])
                                                 sec == IntValue(seconds)
                                                 us == IntValue(us6)
                                             IN  IF DateOk(y, mo, dd) /\ TimeOk(h, mi, sec, us)
                                                 THEN [tag |-> "datetime",
                                                       v |-> <<y, mo, dd, h, mi, sec, us>>,
                                                       tz |-> tzinfo]
                                                 ELSE Raise("ValueError")

\* --------------------------------------------------------------- decimal
Dec(sign, coeff, exp) == [tag |-> "Decimal", sign |-> sign, coeff |-> coeff, exp |-> exp]

NumDigits(n) == Len(IntToStr(n))

RECURSIVE Zeros(_)
Zeros(n) == IF n <= 0 THEN <<>> ELSE <<"0">> \o Zeros(n - 1)

\* decimal.Decimal(t) for a numeral: a sign, digits, at most one point
DecimalOk(t) ==
    LET body == IF t # <<>> /\ t[1] \in {"+", "-"} THEN Tail(t) ELSE t
        parts == Split(body, ".")
    IN  /\ Len(parts) <= 2
        /\ \A i \in 1..Len(parts) : parts[i] = <<>> \/ IsDigits(parts[i])
        /\ \E i \in 1..Len(parts) : parts[i] # <<>>

DecimalValue(t) ==
    LET body == IF t[1] \in {"+", "-"} THEN Tail(t) ELSE t
        parts == Split(body, ".")
        frac == IF Len(parts) = 2 THEN parts[2] ELSE <<>>
    IN  Dec(IF t[1] = "-" THEN 1 ELSE 0, DigitsValue(parts[1] \o frac), 0 - Len(frac))

\* str(d) for a Decimal d
DecimalStr(d) ==
    LET int == IntToStr(d.coeff)
        leftdigits == d.exp + Len(int)
        dotplace == IF d.exp <= 0 /\ leftdigits > -6 THEN leftdigits ELSE 1
        intpart == IF dotplace <= 0 THEN <<"0">>
                   ELSE IF dotplace >= Len(int) THEN int \o Zeros(dotplace - Len(int))
                   ELSE SubSeq(int, 1, dotplace)
        fracpart == IF dotplace <= 0 THEN <<".">> \o Zeros(0 - dotplace) \o int
                    ELSE IF dotplace >= Len(int) THEN <<>>
                    ELSE <<".">> \o SubSeq(int, dotplace + 1, Len(int))
        e == leftdigits - dotplace
        exp == IF e = 0 THEN <<>>
               ELSE <<"E", IF e > 0 THEN "+" ELSE "-">> \o IntToStr(IF e > 0 THEN e ELSE 0 - e)
    IN  (IF d.sign = 1 THEN <<"-">> ELSE <<>>) \o intpart \o fracpart \o exp

\* a typecast_decimal that tests for None only
typecast_decimal_none_only(s) ==
    IF s = None THEN None
    ELSE IF DecimalOk(s.chars) THEN DecimalValue(s.chars)
    ELSE Raise("InvalidOperation")

typecast_decimal(s) ==
    IF s = None \/ s = Str(<<>>) THEN None
    ELSE IF DecimalOk(s.chars) THEN DecimalValue(s.chars)
    ELSE Raise("InvalidOperation")

rev_typecast_decimal(d) ==
    IF d = None THEN None
    ELSE IF d.tag = "Decimal" THEN Str(DecimalStr(d))
    ELSE Str(d.chars)

\* ---------------------------------------------------------- truncate_name
HexChars == <<"0", "1", "2", "3", "4", "5", "6", "7",
              "8", "9", "a", "b", "c", "d", "e", "f">>

\* the length of hashlib.md5(...).hexdigest()
DigestLen == 32

Alphabet == <<"a", "b">>

CharCode(c) == CHOOSE i \in 1..Len(Alphabet) : Alphabet[i] = c

RECURSIVE Checksum(_)
Checksum(name) ==
    IF name = <<>> THEN 7
    ELSE (31 * Checksum(SubSeq(name, 1, Len(name) - 1)) + CharCode(name[Len(name)])) % 4093

\* hashlib.md5(force_bytes(name)).hexdigest(): a fixed function of the name
\* giving DigestLen hexadecimal digits (md5 itself stands outside the model)
Hexdigest(name) ==
    [i \in 1..DigestLen |-> HexChars[((Checksum(name) * i + i * i) % 16) + 1]]

truncate_name(name, length, hash_len) ==
    IF length = None \/ Len(name) <= length.n THEN name
    ELSE LET hsh == SliceTo(Hexdigest(name), hash_len)
         IN  SliceTo(name, length.n - hash_len) \o hsh

\* ---------------------------------------------------------- format_number
\* a quantize that does not check the digits against the context's precision
quantize_unchecked(d, places, prec) ==
    LET shift == d.exp + places
        scale == Pow10(0 - shift)
        q == d.coeff \div scale
        r == d.coeff % scale
        rounded == IF shift >= 0 THEN d.coeff * Pow10(shift)
                   ELSE IF 2 * r > scale \/ (2 * r = scale /\ q % 2 = 1) THEN q + 1
                   ELSE q
    IN  Dec(d.sign, rounded, 0 - places)

\* d.quantize(Decimal(".1") ** places, context) under a context of precision
\* prec and rounding ROUND_HALF_EVEN: d at exponent -places, or
\* InvalidOperation when that takes more than prec digits
quantize(d, places, prec) ==
    LET shift == d.exp + places
        scale == Pow10(0 - shift)
        q == d.coeff \div scale
        r == d.coeff % scale
        rounded == IF shift >= 0 THEN d.coeff * Pow10(shift)
                   ELSE IF 2 * r > scale \/ (2 * r = scale /\ q % 2 = 1) THEN q + 1
                   ELSE q
    IN  IF d.coeff = 0 THEN Dec(d.sign, 0, 0 - places)
        ELSE IF NumDigits(d.coeff) + shift > prec THEN Raise("InvalidOperation")
        ELSE IF NumDigits(rounded) > prec THEN Raise("InvalidOperation")
        ELSE Dec(d.sign, rounded, 0 - places)

\* "{0:f}".format(d) for a Decimal of exponent <= 0
FormatF(d) ==
    LET places == 0 - d.exp
        whole == IntToStr(d.coeff \div Pow10(places))
    IN  (IF d.sign = 1 THEN <<"-">> ELSE <<>>)
        \o whole
        \o (IF places = 0 THEN <<>> ELSE <<".">> \o ZeroPad(d.coeff % Pow10(places), places))

format_number(value, max_digits, decimal_places) ==
    IF value.tag = "Decimal"
    THEN LET quantized == quantize(value, decimal_places, max_digits)
         IN  IF quantized.tag = "raise" THEN quantized ELSE Str(FormatF(quantized))
    ELSE Str((IF value.sign = 1 THEN <<"-">> ELSE <<>>)
             \o PercentF(decimal_places, value.sixteenths))

\* a format_number that sets the precision on the global context
format_number_context_global(prec, max_digits) == max_digits

\* decimal.getcontext().prec after format_number: the precision is set on a
\* copy of the context
format_number_context(prec, max_digits) == prec

\* ------------------------------------------------ the typecasts applied
\* bounds of the helpers' arguments
MaxNameLen == 5
MaxLength == 5
MaxHashLen == 5
MaxDigits == 4
MaxPlaces == 3

DateText(y, m, d) == ZeroPad(y, 4) \o <<"-">> \o ZeroPad(m, 2) \o <<"-">> \o ZeroPad(d, 2)

TimeText(h, mi, sec) == ZeroPad(h, 2) \o <<":">> \o ZeroPad(mi, 2) \o <<":">> \o ZeroPad(sec, 2)

Years == {2004, 2005}
Months == {2, 7, 13}
Days == {29, 31}
Hours == {9, 24}
Seconds == {0, 59}

\* the fractional digits of a second, each with its count of microseconds
Fractions ==
    {[text |-> <<>>, us |-> 0],
     [text |-> <<".", "5">>, us |-> 500000],
     [text |-> <<".", "5", "9", "0", "3", "5", "8">>, us |-> 590358],
     [text |-> <<".", "1", "2", "3", "4", "5", "6", "7">>, us |-> 123456]}

\* timezone offsets as a driver writes them after the time
Offsets ==
    {<<>>, <<"-", "0", "5">>, <<"+", "0", "5">>, <<"+", "0", "5", ":", "3", "0">>,
     <<"-", "1", "1", ":", "0", "0">>}

\* strings that are no date, time or timestamp
Malformed ==
    {<<"b", "a", "d">>, <<"2", "0", "0", "5", "-", "0", "7">>,
     <<"1", "5", ":", "4", "8">>, <<" ">>,
     <<"2", "0", "0", "5", "-", "0", "7", "-", "2", "9", " ", "1", "5">>}

Empty == {None, Str(<<>>)}

DateInputs ==
    Empty \cup {Str(t) : t \in Malformed}
          \cup {Str(DateText(y, m, d)) : y \in Years, m \in Months, d \in Days}

TimeInputs ==
    Empty \cup {Str(t) : t \in Malformed}
          \cup {Str(TimeText(h, 48, sec) \o f.text) : h \in Hours, sec \in Seconds, f \in Fractions}

DecimalTexts ==
    {<<"3", ".", "1", "4">>, <<"-", "5">>, <<"3", ".", "1", "0">>, <<".", "5">>,
     <<"0", "0", "7">>, <<"a", "b", "c">>, <<"1", ".", "2", ".", "3">>, <<"-">>}

DecimalInputs == Empty \cup {Str(t) : t \in DecimalTexts}

Decimals ==
    {Dec(0, 314, -2), Dec(1, 5, 0), Dec(0, 310, -2), Dec(0, 0, -2),
     Dec(0, 1, -7), Dec(1, 12, 2), Dec(0, 5, -1)}

Arg(fn, s, base, fields) == [fn |-> fn, s |-> s, base |-> base, fields |-> fields]

\* a timestamp 'YYYY-MM-DD hh:mm:ss[.fraction][offset]', with the text before
\* the offset and the fields it spells
WellFormedTimestamps ==
    {Arg("typecast_timestamp",
         Str(DateText(y, m, d) \o <<" ">> \o TimeText(h, 48, sec) \o f.text \o tz),
         DateText(y, m, d) \o <<" ">> \o TimeText(h, 48, sec) \o f.text,
         <<y, m, d, h, 48, sec, f.us>>) :
        y \in Years, m \in Months, d \in Days, h \in Hours, sec \in Seconds,
        f \in Fractions, tz \in Offsets}

TypecastArgs ==
    {Arg("typecast_date", s, <<>>, <<>>) : s \in DateInputs}
    \cup {Arg("typecast_time", s, <<>>, <<>>) : s \in TimeInputs}
    \cup WellFormedTimestamps
    \cup {Arg("typecast_timestamp", s, <<>>, <<>>) : s \in DateInputs}
    \cup {Arg("typecast_decimal", s, <<>>, <<>>) : s \in DecimalInputs}
    \cup {Arg("rev_typecast_decimal", d, <<>>, <<>>) : d \in Empty \cup Decimals}

\* the helper has not been applied yet
Pending == [tag |-> "pending"]

Returns(fn, result) ==
    /\ args.fn = fn
    /\ ret = Pending
    /\ ret' = result
    /\ UNCHANGED <<cursorVars, args, USE_TZ, ctxPrec>>

Apply_typecast_date == Returns("typecast_date", typecast_date(args.s))

Apply_typecast_time == Returns("typecast_time", typecast_time(args.s))

Apply_typecast_timestamp ==
    Returns("typecast_timestamp", typecast_timestamp(args.s, USE_TZ))

Apply_typecast_decimal == Returns("typecast_decimal", typecast_decimal(args.s))

Apply_rev_typecast_decimal ==
    Returns("rev_typecast_decimal", rev_typecast_decimal(args.s))

TypecastInit ==
    /\ CursorInit
    /\ args \in TypecastArgs
    /\ ret = Pending
    /\ USE_TZ \in BOOLEAN
    /\ ctxPrec = 28

TypecastNext ==
    \/ Apply_typecast_date
    \/ Apply_typecast_time
    \/ Apply_typecast_timestamp
    \/ Apply_typecast_decimal
    \/ Apply_rev_typecast_decimal

SpecTypecast == TypecastInit /\ [][TypecastNext]_vars

\* -------------------------------------------------- truncate_name applied
RECURSIVE Names(_)
Names(n) ==
    IF n = 0 THEN {<<>>}
    ELSE Names(n - 1) \cup
         {Append(t, Alphabet[i]) : t \in {u \in Names(n - 1) : Len(u) = n - 1},
                                   i \in 1..Len(Alphabet)}

Lengths == {None} \cup {[tag |-> "int", n |-> n] : n \in 0..MaxLength}

HashLens == (0..MaxHashLen) \cup {DigestLen + 1}

TruncateArgs ==
    {[fn |-> "truncate_name", name |-> name, length |-> length, hash_len |-> hash_len] :
        name \in Names(MaxNameLen), length \in Lengths, hash_len \in HashLens}

Apply_truncate_name ==
    /\ args.fn = "truncate_name"
    /\ ret = Pending
    /\ ret' = Str(truncate_name(args.name, args.length, args.hash_len))
    /\ UNCHANGED <<cursorVars, args, USE_TZ, ctxPrec>>

TruncateInit ==
    /\ CursorInit
    /\ args \in TruncateArgs
    /\ ret = Pending
    /\ USE_TZ = FALSE
    /\ ctxPrec = 28

TruncateNext == Apply_truncate_name

SpecTruncate == TruncateInit /\ [][TruncateNext]_vars

\* -------------------------------------------------- format_number applied
Coefficients == {0, 1, 5, 12, 95, 995}

Exponents == {-5, -2, -1, 0, 2}

FormatValues ==
    {Dec(sign, c, e) : sign \in {0, 1}, c \in Coefficients, e \in Exponents}
    \cup {Dec(0, 314159, -5), Dec(1, 12345, -2)}
    \cup {[tag |-> "float", sign |-> sign, sixteenths |-> k] :
             sign \in {0, 1}, k \in {0, 1, 3, 40}}

FormatArgs ==
    {[fn |-> "format_number", value |-> value, max_digits |-> max_digits,
      decimal_places |-> decimal_places] :
        value \in FormatValues, max_digits \in 1..MaxDigits,
        decimal_places \in 0..MaxPlaces}

Apply_format_number ==
    /\ args.fn = "format_number"
    /\ ret = Pending
    /\ ret' = format_number(args.value, args.max_digits, args.decimal_places)
    /\ ctxPrec' = format_number_context(ctxPrec, args.max_digits)
    /\ UNCHANGED <<cursorVars, args, USE_TZ>>

FormatInit ==
    /\ CursorInit
    /\ args \in FormatArgs
    /\ ret = Pending
    /\ USE_TZ = FALSE
    /\ ctxPrec = 28

FormatNext == Apply_format_number

SpecFormat == FormatInit /\ [][FormatNext]_vars

\* ------------------------------------------------- properties of the cursor
DebugCall == observed.wrapper = "CursorDebugWrapper"
             /\ observed.attr \in {"execute", "executemany"}

\* C1: for every call of execute, executemany or callproc through either
\* wrapper the connection was marked dirty before the driver's method was
\* invoked, and it is still dirty when the call has returned or raised.
C1_DirtyBeforeDelegating ==
    /\ (pc = "bound" /\ frame.attr \in SET_DIRTY_ATTRS) => dirty
    /\ pc = "finally" => (dirty /\ frame.dirtyAtInvoke)
    /\ (pc = "done" /\ observed.attr \in SET_DIRTY_ATTRS)
          => (observed.dirtyAtInvoke /\ dirty)

\* a forwarded execute that raised, on a connection that had been cleaned
C1_Witness ==
    /\ pc = "done"
    /\ observed.wrapper = "CursorWrapper"
    /\ observed.attr = "execute"
    /\ observed.kind = "raise"
    /\ observed.dirtyAtInvoke
    /\ dirty
    /\ Len(queries) = 1

\* C2 as claimed: whatever the operation, a driver exception reaches the
\* caller as the translated database error, never raw.
C2_NeverRaw ==
    (pc = "done" /\ observed.kind = "raise") => observed.exc = "DatabaseError"

\* C2 as amended: a driver exception always reaches the caller; it is the
\* translated database error for the names in WRAP_ERROR_ATTRS (forwarded, or
\* the debug wrapper's execute and executemany) and the driver's own exception
\* for every other forwarded attribute and for iteration.
C2_TranslatedWhereWrapped ==
    (pc = "done" /\ observed.driver = "raise") =>
        /\ observed.kind = "raise"
        /\ observed.attr \in WRAP_ERROR_ATTRS => observed.exc = "DatabaseError"
        /\ observed.attr \notin WRAP_ERROR_ATTRS => observed.exc = "DriverError"

\* a forwarded fetchone whose driver error reached the caller translated
C2_Witness ==
    /\ pc = "done"
    /\ observed.attr = "fetchone"
    /\ observed.driver = "raise"
    /\ observed.exc = "DatabaseError"

\* C3: every debug execute / executemany, returning or raising, appends
\* exactly one query-log entry and emits exactly one log record, both before
\* its outcome reaches the caller: n calls make n entries and n records.
C3_OneEntryPerCall ==
    /\ Len(logged) = Len(queries)
    /\ pc = "finally" => (Len(queries) + 1 = Len(calls) /\ observed = NoObserved)
    /\ pc # "finally" => Len(queries) = Len(calls)

\* a second debug call, an execute that raised, with both entries logged
C3_Witness ==
    /\ pc = "done"
    /\ DebugCall
    /\ observed.attr = "execute"
    /\ observed.kind = "raise"
    /\ Len(queries) = 2
    /\ Len(logged) = 2

\* C4: the query log only grows at its end, by one entry, and only in the
\* finally clause of the debug wrapper's execute or executemany; every other
\* operation leaves it as it was.
C4_AppendOnly ==
    [][/\ Len(queries') >= Len(queries)
       /\ SubSeq(queries', 1, Len(queries)) = queries
       /\ queries' # queries =>
             /\ pc = "finally"
             /\ frame.wrapper = "CursorDebugWrapper"
             /\ frame.attr \in {"execute", "executemany"}
             /\ Len(queries') = Len(queries) + 1]_vars

\* a forwarded execute on the plain wrapper completed over a log of two entries
C4_Witness ==
    /\ pc = "done"
    /\ observed.wrapper = "CursorWrapper"
    /\ observed.attr = "execute"
    /\ Len(queries) = 2
    /\ queries[2].sql[1] # "QUERY = "

\* the digits of a decimal numeral, as a number
RECURSIVE StrToInt(_)
StrToInt(t) ==
    IF t = <<>> THEN 0
    ELSE 10 * StrToInt(SubSeq(t, 1, Len(t) - 1))
         + (CHOOSE d \in 0..9 : Digits[d + 1] = t[Len(t)])

\* t is digits, a point and exactly three digits
ThreeDecimals(t) ==
    /\ Len(t) >= 5
    /\ t[Len(t) - 3] = "."
    /\ \A j \in (1..Len(t)) \ {Len(t) - 3} : t[j] \in DigitChars

\* t names the multiple of 1/1000 nearest to sixteenths / 16
NearestThousandth(t, sixteenths) ==
    LET n == 1000 * StrToInt(SubSeq(t, 1, Len(t) - 4))
             + StrToInt(SubSeq(t, Len(t) - 2, Len(t)))
        diff == 16 * n - 1000 * sixteenths
    IN  -8 <= diff /\ diff <= 8

TimeFieldOk(i) ==
    /\ ThreeDecimals(queries[i].time)
    /\ NearestThousandth(queries[i].time, logged[i].duration)

\* C5 as claimed: for execute and for executemany the entry's sql is what
\* last_executed_query returned for the call, and its time has 3 decimals.
C5_SqlIsRendered ==
    \A i \in 1..Len(queries) :
        /\ queries[i].sql = last_executed_query(calls[i].sql, calls[i].params)
        /\ TimeFieldOk(i)

\* C5 as amended: execute's entry holds what last_executed_query returned for
\* the call; executemany's entry holds "<count> times: " and the statement as
\* passed, never rendered; the time of both has exactly 3 decimals.
C5_SqlOfEntry ==
    \A i \in 1..Len(queries) :
        /\ calls[i].attr = "execute" =>
              queries[i].sql = last_executed_query(calls[i].sql, calls[i].params)
        /\ calls[i].attr = "executemany" =>
              /\ SubSeq(queries[i].sql, 2, Len(queries[i].sql))
                    = <<" times: ">> \o calls[i].sql
              /\ queries[i].sql # last_executed_query(calls[i].sql, calls[i].params)
        /\ TimeFieldOk(i)

\* an execute with parameters and an executemany, both logged, one timed 0.188
C5_Witness ==
    /\ Len(queries) = 2
    /\ calls[1].attr = "execute"
    /\ calls[1].params # None
    /\ calls[2].attr = "executemany"
    /\ queries[2].time = <<"0", ".", "1", "8", "8">>

\* C6: executemany over parameters without a length still appends its entry,
\* with "?" for the count; over sized parameters the entry holds the size; the
\* caller sees the driver call's result or its translated error.
C6_IndeterminateCount ==
    /\ \A i \in 1..Len(queries) :
          calls[i].attr = "executemany" =>
              /\ calls[i].params.tag = "iterator" => queries[i].sql[1] = "?"
              /\ calls[i].params.tag = "list" =>
                    /\ queries[i].sql[1] \in DigitChars
                    /\ StrToInt(<<queries[i].sql[1]>>) = Len(calls[i].params.items)
    /\ (pc = "done" /\ DebugCall /\ observed.attr = "executemany") =>
          /\ Len(queries) = Len(calls)
          /\ observed.kind = observed.driver
          /\ observed.exc \in {"-", "DatabaseError"}

\* an executemany over an iterator whose driver call raised
C6_Witness ==
    /\ pc = "done"
    /\ DebugCall
    /\ observed.attr = "executemany"
    /\ observed.kind = "raise"
    /\ calls[Len(calls)].params.tag = "iterator"
    /\ queries[Len(queries)].sql[1] = "?"

\* ------------------------------------------------ properties of the helpers
FiveCoercions ==
    {"typecast_date", "typecast_time", "typecast_timestamp", "typecast_decimal",
     "rev_typecast_decimal"}

\* C7 as claimed: each of the five coercion functions returns None for None
\* and for the empty string.
C7_EmptyYieldsNone ==
    (args.fn \in FiveCoercions /\ args.s \in Empty /\ ret # Pending) => ret = None

\* C7 as amended: typecast_date, typecast_time, typecast_timestamp and
\* typecast_decimal return None for None and for the empty string;
\* rev_typecast_decimal returns None for None and the empty string itself for
\* the empty string.
C7_EmptyInputs ==
    (args.fn \in FiveCoercions /\ args.s \in Empty /\ ret # Pending) =>
        IF args.fn = "rev_typecast_decimal" /\ args.s = Str(<<>>)
        THEN ret = Str(<<>>)
        ELSE ret = None

\* typecast_decimal applied to the empty string
C7_Witness ==
    /\ args.fn = "typecast_decimal"
    /\ args.s = Str(<<>>)
    /\ ret = None

\* C8: for a set length >= 0 and any hash_len >= 0 the result of truncate_name
\* is at most length long; it is the name when the name fits, and otherwise it
\* is exactly length long: the first length - hash_len characters of the name
\* and then hash_len characters of the digest.
C8_LengthBounded ==
    (args.fn = "truncate_name" /\ ret # Pending /\ args.length # None) =>
        LET n == args.length.n
            h == args.hash_len
            r == ret.chars
        IN  /\ Len(r) <= n
            /\ Len(args.name) <= n => r = args.name
            /\ Len(args.name) > n =>
                  /\ Len(r) = n
                  /\ SubSeq(r, 1, n - h) = SubSeq(args.name, 1, n - h)
                  /\ SubSeq(r, n - h + 1, n) = SubSeq(Hexdigest(args.name), 1, h)

\* the digits of a numeral with its sign and point taken out
DigitsOnly(t) == SelectSeq(t, LAMBDA c : c \in DigitChars)

\* the number of characters after the point, 0 without a point
PlacesOf(t) == IF Contains(t, ".") THEN Len(t) - IndexOf(t, ".") ELSE 0

\* the value c * 10^e rounded half-even to the given places takes more than
\* max_digits digits: 2 * c * 10^(e + places) >= 2 * 10^max_digits - 1
TooManyDigits(d, max_digits, places) ==
    LET shift == d.exp + places
    IN  IF shift >= 0
        THEN 2 * d.coeff * Pow10(shift) >= 2 * Pow10(max_digits) - 1
        ELSE (2 * d.coeff) \div Pow10(0 - shift) >= 2 * Pow10(max_digits) - 1

\* the numeral t, read at the given places, is within half a unit of d
WithinHalfUnit(t, d, places) ==
    LET n == DigitsValue(DigitsOnly(t))
        shift == d.exp + places
        diff == IF shift >= 0 THEN n - d.coeff * Pow10(shift)
                ELSE n * Pow10(0 - shift) - d.coeff
    IN  /\ (t[1] = "-") = (d.sign = 1)
        /\ IF shift >= 0 THEN diff = 0
           ELSE -Pow10(0 - shift) <= 2 * diff /\ 2 * diff <= Pow10(0 - shift)

FormattedDecimal ==
    args.fn = "format_number" /\ args.value.tag = "Decimal" /\ ret # Pending

\* C9 as claimed: for every decimal, max_digits >= 1 and decimal_places >= 0,
\* format_number returns a string of at most max_digits significant digits and
\* exactly decimal_places digits after the point, and leaves the global
\* decimal context as it was.
C9_AlwaysFormats ==
    FormattedDecimal =>
        /\ ret.tag = "str"
        /\ PlacesOf(ret.chars) = args.decimal_places
        /\ NumDigits(DigitsValue(DigitsOnly(ret.chars))) <= args.max_digits
        /\ ctxPrec = 28

\* C9 as amended: format_number rounds the decimal half-even to decimal_places
\* places; when the rounded value has at most max_digits digits it returns its
\* numeral with exactly decimal_places digits after the point, and otherwise
\* it raises InvalidOperation; the global decimal context is unchanged.
C9_FormatsOrSignals ==
    FormattedDecimal =>
        /\ ctxPrec = 28
        /\ (ret.tag = "raise") =
               TooManyDigits(args.value, args.max_digits, args.decimal_places)
        /\ ret.tag = "raise" => ret.exc = "InvalidOperation"
        /\ ret.tag # "raise" =>
              /\ ret.tag = "str"
              /\ PlacesOf(ret.chars) = args.decimal_places
              /\ NumDigits(DigitsValue(DigitsOnly(ret.chars))) <= args.max_digits
              /\ WithinHalfUnit(ret.chars, args.value, args.decimal_places)

\* format_number(Decimal("3.14159"), 3, 1) returned "3.1"
C9_Witness ==
    /\ FormattedDecimal
    /\ args.value = Dec(0, 314159, -5)
    /\ args.max_digits = 3
    /\ args.decimal_places = 1
    /\ ret = Str(<<"3", ".", "1">>)

\* C10: typecast_timestamp of 'YYYY-MM-DD hh:mm:ss[.fraction]' does not
\* depend on a trailing offset: whatever offset follows the same text, the
\* outcome is the same, a datetime has the fields the text spells, and it is
\* tagged UTC exactly when USE_TZ is set.
C10_OffsetIgnored ==
    (args.fn = "typecast_timestamp" /\ args.base # <<>> /\ ret # Pending) =>
        /\ \A tz \in Offsets :
              LET other == typecast_timestamp(Str(args.base \o tz), USE_TZ)
              IN  /\ other.tag = ret.tag
                  /\ ret.tag = "datetime" => (other.v = ret.v /\ other.tz = ret.tz)
        /\ (ret.tag = "datetime") =
              (/\ DateOk(args.fields[1], args.fields[2], args.fields[3])
               /\ TimeOk(args.fields[4], args.fields[5], args.fields[6], args.fields[7]))
        /\ ret.tag # "datetime" => ret = Raise("ValueError")
        /\ ret.tag = "datetime" =>
              /\ ret.v = args.fields
              /\ ret.tz = IF USE_TZ THEN "utc" ELSE "naive"

\* a timestamp with a fraction and the offset +05:30, parsed under USE_TZ
C10_Witness ==
    /\ args.fn = "typecast_timestamp"
    /\ args.base # <<>>
    /\ Len(args.s.chars) = Len(args.base) + 6
    /\ args.s.chars[Len(args.base) + 1] = "+"
    /\ USE_TZ
    /\ ret.tag = "datetime"
    /\ ret.tz = "utc"
    /\ ret.v = <<2004, 2, 29, 9, 48, 59, 590358>>
====
